---- MODULE Spec2Model ----
(***************************************************************************)
(* Model of src/parser/lval.js (class LValParser): the conversion of an    *)
(* expression tree into an assignable pattern (toAssignable,               *)
(* toAssignableList), the validation of lvalues (checkLVal) and the direct *)
(* parsing of binding patterns (parseBindingAtom, parseBindingList,        *)
(* parseRest, parseMaybeDefault).                                          *)
(***************************************************************************)
EXTENDS Integers, Sequences, FiniteSets, TLC

VARIABLES
    input,        \* the tree handed to toAssignable / checkLVal, as it was on entry
    isBinding,    \* the isBinding argument
    node,         \* the tree after the last operation (mutated in place by the code)
    err,          \* the error raised by the last operation, NoError if it returned
    pc,           \* which operation has run
    errPos,       \* where checkLVal raised (the path of the node, for expr.start)
    visited,      \* paths of the identifiers checkLVal handed to checkReservedWord
    checkClashes, \* the clash map shared by a run of checkLVal calls
    seen,         \* names of the identifiers visited so far under checkClashes
    calls,        \* number of checkLVal calls made with checkClashes
    lastNames,    \* names visited by the last checkLVal call, in order
    tokens,       \* the token stream of the parser
    state,        \* the parser's cursor: index of the current token
    stack,        \* the parser's call stack, innermost frame first
    ret,          \* the value returned by the frame that just finished
    perr,         \* the error raised by the parser, NoError if none
    streak,       \* consecutive parseBindingList iterations that consumed no token
    call          \* the arguments of the parser entry point under check

vars == <<input, isBinding, node, err, errPos, pc, visited, checkClashes, seen, calls,
          lastNames, tokens, state, stack, ret, perr, streak, call>>

convVars == <<input, isBinding, node, err, errPos, pc, visited>>
clashVars == <<checkClashes, seen, calls, lastNames>>
parseVars == <<tokens, state, stack, ret, perr, streak, call>>

(***************************************************************************)
(* Bounds of the model.                                                    *)
(***************************************************************************)
\* largest number of nodes of an input tree of toAssignable / checkLVal
MaxNodes == 3

\* largest number of checkLVal calls that share one clash map
MaxCalls == 2

\* largest number of tokens of the stream handed to the parser
MaxTokens == 4

\* largest start offset of a node handed to parseMaybeDefault
MaxStart == 1

(***************************************************************************)
(* Errors: raise(pos, message) and unexpected(pos) abort the parse.        *)
(***************************************************************************)
NoError == [kind |-> "none", message |-> ""]

Raise(kind, message) == [kind |-> kind, message |-> message]

(***************************************************************************)
(* Nodes.  A hole of a sparse list (null in the code) is the node Null.    *)
(***************************************************************************)
Null == [type |-> "Null"]

Identifier(name) == [type |-> "Identifier", name |-> name]

PrivateName(name) == [type |-> "PrivateName", name |-> name]

MemberExpression == [type |-> "MemberExpression"]

NumericLiteral == [type |-> "NumericLiteral"]

ObjectExpression(properties) == [type |-> "ObjectExpression", properties |-> properties]

ObjectPattern(properties) == [type |-> "ObjectPattern", properties |-> properties]

ObjectProperty(value) == [type |-> "ObjectProperty", value |-> value]

ObjectMethod(kind) == [type |-> "ObjectMethod", kind |-> kind]

SpreadElement(argument) == [type |-> "SpreadElement", argument |-> argument]

RestElement(argument) == [type |-> "RestElement", argument |-> argument]

ArrayExpression(elements) == [type |-> "ArrayExpression", elements |-> elements]

ArrayPattern(elements) == [type |-> "ArrayPattern", elements |-> elements]

AssignmentExpression(operator, left, right) ==
    [type |-> "AssignmentExpression", operator |-> operator, left |-> left, right |-> right]

AssignmentPattern(left, right) ==
    [type |-> "AssignmentPattern", left |-> left, right |-> right]

\* the pattern family of the data model
PatternFamily ==
    {"Identifier", "PrivateName", "ObjectPattern", "ArrayPattern",
     "AssignmentPattern", "RestElement"}

(***************************************************************************)
(* toAssignable and toAssignableList.  The code retags nodes in place and  *)
(* may raise half way: an operation yields the tree as the code left it    *)
(* and the error it raised, if any.                                        *)
(***************************************************************************)
Done(n) == [node |-> n, err |-> NoError]

Fail(n, e) == [node |-> n, err |-> e]

InvalidLhsMessage(contextDescription) ==
    "Invalid left-hand side" \o
    (IF contextDescription # "" THEN " in " \o contextDescription ELSE "expression")

RECURSIVE toAssignable(_, _, _)
RECURSIVE toAssignableList(_, _, _)
RECURSIVE toAssignableProps(_, _, _)
RECURSIVE toAssignableElts(_, _, _, _, _)

\* a plausible slip: an array pattern falls into the array literal's case
toAssignablePattern_Reconvert(n, isB, contextDescription) ==
    IF n.type = "ArrayPattern"
    THEN LET r == toAssignableList(n.elements, isB, contextDescription)
         IN  [node |-> ArrayPattern(r.list), err |-> r.err]
    ELSE Done(n)

\* lines 28-33: a node that is a pattern already
toAssignablePattern(n, isB, contextDescription) == Done(n)

\* lines 37-47: the loop over node.properties, from index i on
toAssignableProps(properties, i, isB) ==
    IF i > Len(properties) THEN [list |-> properties, err |-> NoError]
    ELSE LET prop == properties[i] IN
         IF prop.type = "ObjectMethod"
         THEN IF prop.kind = "get" \/ prop.kind = "set"
              THEN [list |-> properties,
                    err |-> Raise("illegal-pattern-content",
                                  "Object pattern can't contain getter or setter")]
              ELSE [list |-> properties,
                    err |-> Raise("illegal-pattern-content",
                                  "Object pattern can't contain methods")]
         ELSE LET r == toAssignable(prop, isB, "object destructuring pattern")
                  props2 == [properties EXCEPT ![i] = r.node]
              IN IF r.err # NoError
                 THEN [list |-> props2, err |-> r.err]
                 ELSE toAssignableProps(props2, i + 1, isB)

\* lines 35-48
toAssignableObject(n, isB) ==
    LET r == toAssignableProps(n.properties, 1, isB)
    IN  [node |-> ObjectPattern(r.list), err |-> r.err]

\* a plausible slip: the property's value is not converted
toAssignableProperty_Shallow(n, isB, contextDescription) == Done(n)

\* lines 50-52
toAssignableProperty(n, isB, contextDescription) ==
    LET r == toAssignable(n.value, isB, contextDescription)
    IN  [node |-> [n EXCEPT !.value = r.node], err |-> r.err]

\* a plausible slip: the spread is retagged, its argument not converted
toAssignableSpread_Shallow(n, isB, contextDescription) == Done(RestElement(n.argument))

\* lines 54-58
toAssignableSpread(n, isB, contextDescription) ==
    LET r == toAssignable(n.argument, isB, contextDescription)
    IN  [node |-> RestElement(r.node), err |-> r.err]

\* lines 60-63
toAssignableArray(n, isB, contextDescription) ==
    LET r == toAssignableList(n.elements, isB, contextDescription)
    IN  [node |-> ArrayPattern(r.list), err |-> r.err]

\* lines 65-72: the operator field is deleted, the left side is left as it is
toAssignableAssignment(n) ==
    IF n.operator = "="
    THEN Done(AssignmentPattern(n.left, n.right))
    ELSE Fail(n, Raise("malformed-default",
                       "Only '=' operator can be used for specifying default value."))

\* lines 77-81
toAssignableDefault(n, contextDescription) ==
    Fail(n, Raise("invalid-lvalue-shape", InvalidLhsMessage(contextDescription)))

\* lines 74-75, falling through to the default case
toAssignableMember(n, isB, contextDescription) ==
    IF ~isB THEN Done(n) ELSE toAssignableDefault(n, contextDescription)

toAssignable(n, isB, contextDescription) ==
    IF n.type = "Null" THEN Done(n)
    ELSE CASE n.type \in {"Identifier", "PrivateName", "ObjectPattern",
                          "ArrayPattern", "AssignmentPattern"} ->
                toAssignablePattern(n, isB, contextDescription)
           [] n.type = "ObjectExpression" -> toAssignableObject(n, isB)
           [] n.type = "ObjectProperty" -> toAssignableProperty(n, isB, contextDescription)
           [] n.type = "SpreadElement" -> toAssignableSpread(n, isB, contextDescription)
           [] n.type = "ArrayExpression" -> toAssignableArray(n, isB, contextDescription)
           [] n.type = "AssignmentExpression" -> toAssignableAssignment(n)
           [] n.type = "MemberExpression" -> toAssignableMember(n, isB, contextDescription)
           [] OTHER -> toAssignableDefault(n, contextDescription)

\* lines 110-115: the loop over exprList[0 .. end-1], from index i on
toAssignableElts(exprList, i, end, isB, contextDescription) ==
    IF i > end THEN [list |-> exprList, err |-> NoError]
    ELSE LET elt == exprList[i] IN
         IF elt.type = "SpreadElement"
         THEN [list |-> exprList,
               err |-> Raise("misplaced-rest",
                 "The rest element has to be the last element when destructuring")]
         ELSE LET r == toAssignable(elt, isB, contextDescription)
                  list2 == [exprList EXCEPT ![i] = r.node]
              IN IF r.err # NoError
                 THEN [list |-> list2, err |-> r.err]
                 ELSE toAssignableElts(list2, i + 1, end, isB, contextDescription)

\* a plausible slip: the shape of the rest's argument is not checked
toAssignableList_AnyRest(exprList, isB, contextDescription) ==
    LET len == Len(exprList) IN
    IF len = 0 THEN [list |-> exprList, err |-> NoError]
    ELSE LET last == exprList[len] IN
         IF last.type = "RestElement"
         THEN toAssignableElts(exprList, 1, len - 1, isB, contextDescription)
         ELSE IF last.type = "SpreadElement"
         THEN LET r == toAssignable(last.argument, isB, contextDescription)
                  list2 == [exprList EXCEPT ![len] = RestElement(r.node)]
              IN IF r.err # NoError
                 THEN [list |-> list2, err |-> r.err]
                 ELSE toAssignableElts(list2, 1, len - 1, isB, contextDescription)
         ELSE toAssignableElts(exprList, 1, len, isB, contextDescription)

\* lines 89-117
toAssignableList(exprList, isB, contextDescription) ==
    LET len == Len(exprList) IN
    IF len = 0 THEN [list |-> exprList, err |-> NoError]
    ELSE LET last == exprList[len] IN
         IF last.type = "RestElement"
         THEN toAssignableElts(exprList, 1, len - 1, isB, contextDescription)
         ELSE IF last.type = "SpreadElement"
         THEN LET r == toAssignable(last.argument, isB, contextDescription)
                  list2 == [exprList EXCEPT ![len] = RestElement(r.node)]
              IN IF r.err # NoError
                 THEN [list |-> list2, err |-> r.err]
                 ELSE IF r.node.type \notin {"Identifier", "MemberExpression", "ArrayPattern"}
                 THEN [list |-> list2, err |-> Raise("unexpected-token", "Unexpected token")]
                 ELSE toAssignableElts(list2, 1, len - 1, isB, contextDescription)
         ELSE toAssignableElts(exprList, 1, len, isB, contextDescription)

(***************************************************************************)
(* checkLVal.  The clash map is optional: <<>> when the caller passes      *)
(* none, <<map>> otherwise.  A map is an object: the keys it owns and its  *)
(* prototype; checkClashes[key] reads through the prototype chain.         *)
(***************************************************************************)
\* keys every object inherits from Object.prototype with a truthy value,
\* among those a key `_${name}` can spell
ObjectPrototypeKeys ==
    {"__proto__", "__defineGetter__", "__defineSetter__",
     "__lookupGetter__", "__lookupSetter__"}

\* checkClashes[key], line 249
ClashGet(map, key) ==
    \/ key \in map.own
    \/ map.proto = "Object.prototype" /\ key \in ObjectPrototypeKeys

\* checkClashes[key] = true, line 252
ClashSet(map, key) == [map EXCEPT !.own = @ \cup {key}]

\* line 247
ClashKey(name) == "_" \o name

\* checkReservedWord(word, startLoc, false, true): the classifier of
\* expression.js; the names of the model are not reserved words
checkReservedWord(word) == NoError

\* state threaded through one checkLVal call
CheckStart(clashes) ==
    [err |-> NoError, at |-> <<>>, clashes |-> clashes, visited |-> <<>>, names |-> <<>>]

\* this.raise(expr.start, message), the path standing for expr.start
CheckRaise(st, path, kind, message) ==
    [st EXCEPT !.err = Raise(kind, message), !.at = path]

CheckLhsMessage(isB, contextDescription) ==
    (IF isB THEN "Binding invalid" ELSE "Invalid") \o " left-hand side" \o
    (IF contextDescription # "" THEN " in " \o contextDescription ELSE "expression")

RECURSIVE checkLVal(_, _, _, _, _)
RECURSIVE checkLValProps(_, _, _, _, _)
RECURSIVE checkLValElems(_, _, _, _, _)

\* lines 231-255
checkLValIdentifier(expr, st, path) ==
    LET st1 == [st EXCEPT !.visited = Append(@, path), !.names = Append(@, expr.name)] IN
    IF checkReservedWord(expr.name) # NoError
    THEN [st1 EXCEPT !.err = checkReservedWord(expr.name), !.at = path]
    ELSE IF st.clashes = <<>> THEN st1
    ELSE LET key == ClashKey(expr.name)
             map == st.clashes[1]
         IN IF ClashGet(map, key)
            THEN CheckRaise(st1, path, "duplicate-binding",
                            "Argument name clash in strict mode")
            ELSE [st1 EXCEPT !.clashes = <<ClashSet(map, key)>>]

\* a plausible slip: a member expression is accepted in every context
checkLValMember_Lenient(isB, st, path) == st

\* lines 257-260
checkLValMember(isB, st, path) ==
    IF isB
    THEN CheckRaise(st, path, "invalid-lvalue-shape",
                    (IF isB THEN "Binding" ELSE "Assigning to") \o " member expression")
    ELSE st

\* lines 263-266: the loop over expr.properties, from index i on
checkLValProps(properties, i, isB, st, path) ==
    IF i > Len(properties) THEN st
    ELSE LET prop == properties[i]
             r == IF prop.type = "ObjectProperty"
                  THEN checkLVal(prop.value, isB, st, "object destructuring pattern",
                                 path \o <<i, 0>>)
                  ELSE checkLVal(prop, isB, st, "object destructuring pattern",
                                 path \o <<i>>)
         IN IF r.err # NoError THEN r
            ELSE checkLValProps(properties, i + 1, isB, r, path)

\* lines 270-272: the loop over expr.elements, from index i on
checkLValElems(elements, i, isB, st, path) ==
    IF i > Len(elements) THEN st
    ELSE LET elem == elements[i]
             r == IF elem.type # "Null"
                  THEN checkLVal(elem, isB, st, "array destructuring pattern", path \o <<i>>)
                  ELSE st
         IN IF r.err # NoError THEN r
            ELSE checkLValElems(elements, i + 1, isB, r, path)

\* path stands for expr.start: it names the node the call is about
checkLVal(expr, isB, st, contextDescription, path) ==
    CASE expr.type \in {"PrivateName", "Identifier"} -> checkLValIdentifier(expr, st, path)
      [] expr.type = "MemberExpression" -> checkLValMember(isB, st, path)
      [] expr.type = "ObjectPattern" -> checkLValProps(expr.properties, 1, isB, st, path)
      [] expr.type = "ArrayPattern" -> checkLValElems(expr.elements, 1, isB, st, path)
      [] expr.type = "AssignmentPattern" ->
            checkLVal(expr.left, isB, st, "assignment pattern", path \o <<0>>)
      [] expr.type = "RestElement" ->
            checkLVal(expr.argument, isB, st, "rest element", path \o <<0>>)
      [] OTHER ->
            CheckRaise(st, path, "invalid-lvalue-shape",
                       CheckLhsMessage(isB, contextDescription))

(***************************************************************************)
(* The input trees: every tree of at most MaxNodes expression or pattern   *)
(* nodes.  A property, a spread and a rest count with the node they wrap;  *)
(* the default value of an assignment is one fixed literal, not counted.   *)
(***************************************************************************)
Leaves == {Identifier("a"), PrivateName("p"), MemberExpression, NumericLiteral}

Methods == {ObjectMethod("get"), ObjectMethod("set"), ObjectMethod("method")}

\* the row of size n of a table (a sequence of sets); size 0 is given apart
Row(table, n, zero) == IF n = 0 THEN zero ELSE table[n]

\* sequences of total size n made of one item of size k and a sequence of size n-k
SeqsOfSize(items, seqs, n) ==
    UNION { { <<e>> \o s : e \in items[k], s \in Row(seqs, n - k, {<<>>}) } : k \in 1..n }

\* the expressions made of one node over the given lists and left sides
ExprsOver(elts, props, lefts) ==
    { ArrayExpression(s) : s \in elts } \cup { ArrayPattern(s) : s \in elts }
    \cup { ObjectExpression(s) : s \in props } \cup { ObjectPattern(s) : s \in props }
    \cup { AssignmentExpression(op, l, NumericLiteral) : op \in {"=", "+="}, l \in lefts }
    \cup { AssignmentPattern(l, NumericLiteral) : l \in lefts }

\* what a list element can be: an expression, a spread or a rest around it
EltsOver(exprs) ==
    exprs \cup { SpreadElement(e) : e \in exprs } \cup { RestElement(e) : e \in exprs }

\* what a property can be: a property, a spread or a rest around an expression
PropsOver(exprs) ==
    { ObjectProperty(e) : e \in exprs } \cup { SpreadElement(e) : e \in exprs }
    \cup { RestElement(e) : e \in exprs }

\* the tables grown by one size: expressions E, list elements Elt and
\* properties Prop up to size n, element lists SE and property lists SP up
\* to size n - 1
Grow(T) ==
    LET n == Len(T.E) + 1
        SE1 == IF n = 1 THEN T.SE ELSE Append(T.SE, SeqsOfSize(T.Elt, T.SE, n - 1))
        SP1 == IF n = 1 THEN T.SP ELSE Append(T.SP, SeqsOfSize(T.Prop, T.SP, n - 1))
        En == (IF n = 1 THEN Leaves ELSE {})
              \cup ExprsOver(Row(SE1, n - 1, {<<>>}), Row(SP1, n - 1, {<<>>}),
                             Row(T.E, n - 1, {}))
    IN [E |-> Append(T.E, En),
        Elt |-> Append(T.Elt, EltsOver(En) \cup (IF n = 1 THEN {Null} ELSE {})),
        Prop |-> Append(T.Prop, PropsOver(En) \cup (IF n = 1 THEN Methods ELSE {})),
        SE |-> SE1, SP |-> SP1]

RECURSIVE Tables(_)
Tables(n) ==
    IF n = 0 THEN [E |-> <<>>, Elt |-> <<>>, Prop |-> <<>>, SE |-> <<>>, SP |-> <<>>]
    ELSE Grow(Tables(n - 1))

SmallTables == Tables(MaxNodes - 1)

\* the nodes of fewer than MaxNodes nodes
SmallInputs ==
    UNION { SmallTables.Elt[n] \cup SmallTables.Prop[n] : n \in 1..(MaxNodes - 1) }

\* what toAssignable can be handed around an expression e
Wrappings(e) == {e, SpreadElement(e), RestElement(e), ObjectProperty(e)}

\* x is a node of exactly MaxNodes nodes (enumerated, never built as a set)
IsLargeInput(x) ==
    LET T == SmallTables
        n == MaxNodes
    IN \/ \E k \in 1..(n - 1) : \E e \in T.Elt[k] : \E s \in Row(T.SE, n - 1 - k, {<<>>}) :
             \E c \in {ArrayExpression(<<e>> \o s), ArrayPattern(<<e>> \o s)} :
                x \in Wrappings(c)
       \/ \E k \in 1..(n - 1) : \E e \in T.Prop[k] : \E s \in Row(T.SP, n - 1 - k, {<<>>}) :
             \E c \in {ObjectExpression(<<e>> \o s), ObjectPattern(<<e>> \o s)} :
                x \in Wrappings(c)
       \/ \E l \in T.E[n - 1] :
             \E c \in {AssignmentExpression("=", l, NumericLiteral),
                       AssignmentExpression("+=", l, NumericLiteral),
                       AssignmentPattern(l, NumericLiteral)} :
                x \in Wrappings(c)

(***************************************************************************)
(* Specification Spec: one conversion, then one validation.                *)
(***************************************************************************)
InitParseIdle ==
    /\ tokens = <<>> /\ state = 1 /\ stack = <<>> /\ ret = Null
    /\ perr = NoError /\ streak = 0 /\ call = Null

InitClashIdle ==
    /\ checkClashes = <<>> /\ seen = {} /\ calls = 0 /\ lastNames = <<>>

Init ==
    /\ (input \in SmallInputs \/ IsLargeInput(input))
    /\ isBinding \in BOOLEAN
    /\ node = input
    /\ err = NoError
    /\ errPos = <<>>
    /\ pc = "start"
    /\ visited = <<>>
    /\ InitClashIdle
    /\ InitParseIdle

\* this.toAssignable(input, isBinding, contextDescription)
ToAssignable ==
    /\ pc = "start"
    /\ LET r == toAssignable(input, isBinding, "assignment expression")
       IN /\ node' = r.node
          /\ err' = r.err
    /\ pc' = "converted"
    /\ UNCHANGED <<input, isBinding, errPos, visited, clashVars, parseVars>>

\* this.toAssignableList(input.elements, isBinding, contextDescription), the
\* list being that of an array literal or pattern
ToAssignableList ==
    /\ pc = "start"
    /\ input.type \in {"ArrayExpression", "ArrayPattern"}
    /\ LET r == toAssignableList(input.elements, isBinding, "arrow function parameters")
       IN /\ node' = [input EXCEPT !.elements = r.list]
          /\ err' = r.err
    /\ pc' = "listConverted"
    /\ UNCHANGED <<input, isBinding, errPos, visited, clashVars, parseVars>>

\* this.checkLVal(node, isBinding, undefined, contextDescription) on the
\* tree a conversion returned, or on a tree as it was parsed
CheckLVal ==
    /\ pc \in {"start", "converted"}
    /\ err = NoError
    /\ node.type # "Null"
    /\ LET r == checkLVal(node, isBinding, CheckStart(<<>>), "assignment expression", <<>>)
       IN /\ err' = r.err
          /\ errPos' = r.at
          /\ visited' = r.visited
    /\ pc' = IF pc = "start" THEN "checked" ELSE "convertedChecked"
    /\ UNCHANGED <<input, isBinding, node, clashVars, parseVars>>

Next == ToAssignable \/ ToAssignableList \/ CheckLVal

Spec == Init /\ [][Next]_vars

(***************************************************************************)
(* Specification ClashSpec: a run of checkLVal calls on binding patterns   *)
(* that share one clash map, as for the parameters of one function.        *)
(***************************************************************************)
\* the names of the identifiers; "_proto__" has the key "__proto__"
Names == {"a", "b", "__proto__", "_proto__"}

PatternsOver(elts, props, lefts) ==
    { ArrayPattern(s) : s \in elts } \cup { ObjectPattern(s) : s \in props }
    \cup { AssignmentPattern(l, NumericLiteral) : l \in lefts }

\* the tables of the binding patterns grown by one size, as Grow
GrowPatterns(T) ==
    LET n == Len(T.E) + 1
        SE1 == IF n = 1 THEN T.SE ELSE Append(T.SE, SeqsOfSize(T.Elt, T.SE, n - 1))
        SP1 == IF n = 1 THEN T.SP ELSE Append(T.SP, SeqsOfSize(T.Prop, T.SP, n - 1))
        En == (IF n = 1 THEN { Identifier(name) : name \in Names } ELSE {})
              \cup PatternsOver(Row(SE1, n - 1, {<<>>}), Row(SP1, n - 1, {<<>>}),
                                Row(T.E, n - 1, {}))
    IN [E |-> Append(T.E, En),
        Elt |-> Append(T.Elt, En \cup { RestElement(e) : e \in En }
                              \cup (IF n = 1 THEN {Null} ELSE {})),
        Prop |-> Append(T.Prop, { ObjectProperty(e) : e \in En }
                                \cup { RestElement(e) : e \in En }),
        SE |-> SE1, SP |-> SP1]

RECURSIVE PatternTables(_)
PatternTables(n) ==
    IF n = 0 THEN [E |-> <<>>, Elt |-> <<>>, Prop |-> <<>>, SE |-> <<>>, SP |-> <<>>]
    ELSE GrowPatterns(PatternTables(n - 1))

\* the binding patterns of at most MaxNodes nodes
ClashTrees == UNION { PatternTables(MaxNodes).E[n] : n \in 1..MaxNodes }

\* the clash maps a caller can pass: none, Object.create(null), {}
ClashMaps ==
    {<<>>, <<[proto |-> "null", own |-> {}]>>, <<[proto |-> "Object.prototype", own |-> {}]>>}

InitConvIdle ==
    /\ input = Null /\ isBinding = TRUE /\ node = Null /\ err = NoError
    /\ errPos = <<>> /\ pc = "start" /\ visited = <<>>

ClashInit ==
    /\ InitConvIdle
    /\ checkClashes \in ClashMaps
    /\ seen = {}
    /\ calls = 0
    /\ lastNames = <<>>
    /\ InitParseIdle

\* this.checkLVal(t, isBinding, checkClashes, contextDescription); a raise
\* aborts the parse, and no further call is made
CheckLValClash ==
    /\ err = NoError
    /\ calls < MaxCalls
    /\ \E t \in ClashTrees :
          LET r == checkLVal(t, isBinding, CheckStart(checkClashes),
                             "function parameter list", <<>>)
          IN /\ input' = t
             /\ node' = t
             /\ err' = r.err
             /\ errPos' = r.at
             /\ visited' = r.visited
             /\ lastNames' = r.names
             /\ checkClashes' = r.clashes
    /\ seen' = seen \cup { lastNames[i] : i \in DOMAIN lastNames }
    /\ calls' = calls + 1
    /\ pc' = "clashChecked"
    /\ UNCHANGED <<isBinding, parseVars>>

ClashNext == CheckLValClash

ClashSpec == ClashInit /\ [][ClashNext]_vars

(***************************************************************************)
(* The binding parser.  The token cursor, the node factory and the parsers *)
(* of identifiers, expressions, object patterns and decorators are         *)
(* collaborators kept outside lval.js; the parser's calls are frames of an *)
(* explicit stack, innermost first.                                        *)
(***************************************************************************)
\* the token types of the stream (the keyword yield is left out)
TokenTypes ==
    {"name", "comma", "eq", "ellipsis", "bracketL", "bracketR", "parenR",
     "braceL", "braceR", "at"}

Streams == UNION { [1..n -> TokenTypes] : n \in 0..MaxTokens }

\* this.state.type with the cursor at token i; past the stream, end of input
Cur(i) == IF i <= Len(tokens) THEN tokens[i] ELSE "eof"

\* this.state.start and this.state.startLoc with the cursor at token i: the
\* stream follows what was parsed before it, which ends at offset call.base
StartAt(i) == call.base + i

StartLocAt(i) == [line |-> 1, column |-> call.base + i]

\* startNode() / startNodeAt(pos, loc) followed by finishNode(node, type)
PNode(fields, pos, loc) ==
    [k \in DOMAIN fields \cup {"start", "loc"} |->
        IF k = "start" THEN pos
        ELSE IF k = "loc" THEN [start |-> loc]
        ELSE fields[k]]

PResult(n, i) == [node |-> n, state |-> i, err |-> NoError]

\* this.unexpected()
PFail(i) == [node |-> Null, state |-> i, err |-> Raise("unexpected-token", "Unexpected token")]

\* parseIdentifier(): one name token
parseIdentifier(i) ==
    IF Cur(i) = "name"
    THEN PResult(PNode(Identifier("a"), StartAt(i), StartLocAt(i)), i + 1)
    ELSE PFail(i)

\* parseMaybeAssign(): an assignment-level expression, here of one token
parseMaybeAssign(i) ==
    IF Cur(i) = "name"
    THEN PResult(PNode(Identifier("a"), StartAt(i), StartLocAt(i)), i + 1)
    ELSE PFail(i)

\* parseObj(true): an object pattern, here the empty one
parseObj(i) ==
    IF Cur(i) = "braceL" /\ Cur(i + 1) = "braceR"
    THEN PResult(PNode(ObjectPattern(<<>>), StartAt(i), StartLocAt(i)), i + 2)
    ELSE PFail(i + 1)

\* parseDecorator(): the at sign and a name
parseDecorator(i) ==
    IF Cur(i) = "at" /\ Cur(i + 1) = "name"
    THEN PResult(PNode([type |-> "Decorator"], StartAt(i), StartLocAt(i)), i + 2)
    ELSE PFail(i + 1)

\* lines 189-192: while (this.match(tt.at)) decorators.push(this.parseDecorator())
RECURSIVE parseDecorators(_, _)
parseDecorators(i, decorators) ==
    IF Cur(i) # "at" THEN [list |-> decorators, state |-> i, err |-> NoError]
    ELSE LET r == parseDecorator(i)
         IN IF r.err # NoError
            THEN [list |-> decorators, state |-> r.state, err |-> r.err]
            ELSE parseDecorators(r.state, Append(decorators, r.node))

\* line 204
parseAssignableListItemTypes(param) == param

\* an optional argument: <<>> when absent, <<v>> when given
Given(v) == <<v>>

\* startPos || this.state.start, line 212: 0 is falsy
StartPosOr(startPos, i) ==
    IF startPos # <<>> /\ startPos[1] # 0 THEN startPos[1] ELSE StartAt(i)

\* startLoc || this.state.startLoc, line 211: a Position is an object, truthy
StartLocOr(startLoc, i) ==
    IF startLoc # <<>> THEN startLoc[1] ELSE StartLocAt(i)

\* lines 214-219, left being parsed
parseMaybeDefaultTail(i, startPos, startLoc, left) ==
    IF Cur(i) # "eq" THEN PResult(left, i)
    ELSE LET r == parseMaybeAssign(i + 1)
         IN IF r.err # NoError THEN r
            ELSE PResult(PNode([type |-> "AssignmentPattern", left |-> left,
                                right |-> r.node], startPos, startLoc), r.state)

\* parseMaybeDefault(startPos, startLoc, left) with left given, lines 210-220
parseMaybeDefaultOf(i, startPos, startLoc, left) ==
    parseMaybeDefaultTail(i, StartPosOr(startPos, i), StartLocOr(startLoc, i), left)

\* the array of patterns that parseBindingList returns, lines 171 and 201
List(elts) == [type |-> "List", elements |-> elts]

\* the frames of the calls
ListFrame(close, allowEmpty) ==
    [fn |-> "parseBindingList", pc |-> "loop", close |-> close, allowEmpty |-> allowEmpty,
     elts |-> <<>>, first |-> TRUE, decorators |-> <<>>, iterStart |-> 0, idle |-> 0]

RestFrame == [fn |-> "parseRest", pc |-> "enter", start |-> 0]

AtomFrame == [fn |-> "parseBindingAtom", pc |-> "enter", start |-> 0]

MaybeDefaultFrame ==
    [fn |-> "parseMaybeDefault", pc |-> "enter", startPos |-> 0,
     startLoc |-> [line |-> 0, column |-> 0]]

Top == stack[1]

InFrame(fn, at) == stack # <<>> /\ Top.fn = fn /\ Top.pc = at

\* the innermost call returns v to its caller
Return(v) == stack' = Tail(stack) /\ ret' = v

\* raise and unexpected unwind the whole parse
Abort(e) == perr' = e /\ stack' = <<>> /\ ret' = Null

\* the innermost frame is replaced by f and the frame of a call is pushed
CallFrom(f, callee) == stack' = <<callee, f>> \o Tail(stack)

Max(a, b) == IF a >= b THEN a ELSE b

\* the cursor after the head of a parseBindingList iteration, lines 174-178:
\* expectLenient(tt.comma) eats a comma if there is one and goes on if not
AfterComma == IF ~Top.first /\ Cur(state) = "comma" THEN state + 1 ELSE state

\* line 179: the next item is a hole
AtHole == Top.allowEmpty /\ Cur(AfterComma) = "comma"

\* line 173: while (!this.eat(close)), the list ends
ListEnd ==
    /\ InFrame("parseBindingList", "loop")
    /\ Cur(state) = Top.close
    /\ state' = state + 1
    /\ Return(List(Top.elts))
    /\ UNCHANGED <<tokens, perr, streak, call, convVars, clashVars>>

\* a plausible slip: the comma before a hole is not consumed
ListHole_NoComma ==
    /\ InFrame("parseBindingList", "loop")
    /\ Cur(state) # Top.close
    /\ Top.allowEmpty /\ Cur(state) = "comma"
    /\ state' = state
    /\ LET idle == Top.idle + 1
       IN /\ stack' = <<[Top EXCEPT !.elts = Append(@, Null), !.first = FALSE,
                                    !.idle = idle]>> \o Tail(stack)
          /\ streak' = Max(streak, idle)
    /\ UNCHANGED <<tokens, ret, perr, call, convVars, clashVars>>

\* lines 179-181: a hole is pushed, the comma after it is not consumed
ListHole ==
    /\ InFrame("parseBindingList", "loop")
    /\ Cur(state) # Top.close
    /\ AtHole
    /\ state' = AfterComma
    /\ LET idle == IF AfterComma = state THEN Top.idle + 1 ELSE 0
       IN /\ stack' = <<[Top EXCEPT !.elts = Append(@, Null), !.first = FALSE,
                                    !.idle = idle]>> \o Tail(stack)
          /\ streak' = Max(streak, idle)
    /\ UNCHANGED <<tokens, ret, perr, call, convVars, clashVars>>

\* lines 182-183: the close follows a comma, the list ends
ListBreak ==
    /\ InFrame("parseBindingList", "loop")
    /\ Cur(state) # Top.close
    /\ ~AtHole
    /\ Cur(AfterComma) = Top.close
    /\ state' = AfterComma + 1
    /\ Return(List(Top.elts))
    /\ UNCHANGED <<tokens, perr, streak, call, convVars, clashVars>>

\* lines 184-185: a rest pattern, this.parseRest() is called
ListRest ==
    /\ InFrame("parseBindingList", "loop")
    /\ Cur(state) # Top.close
    /\ ~AtHole
    /\ Cur(AfterComma) = "ellipsis"
    /\ state' = AfterComma
    /\ CallFrom([Top EXCEPT !.pc = "afterRest", !.first = FALSE, !.iterStart = state],
                RestFrame)
    /\ UNCHANGED <<tokens, ret, perr, streak, call, convVars, clashVars>>

\* a plausible slip: after the rest, the loop goes on
ListAfterRest_GoOn ==
    /\ InFrame("parseBindingList", "afterRest")
    /\ state' = state
    /\ stack' = <<[Top EXCEPT !.elts = Append(@, parseAssignableListItemTypes(ret)),
                              !.pc = "loop"]>> \o Tail(stack)
    /\ UNCHANGED <<tokens, ret, perr, streak, call, convVars, clashVars>>

\* lines 185-187: the rest is pushed, the close is expected, the loop ends
ListAfterRest ==
    /\ InFrame("parseBindingList", "afterRest")
    /\ IF Cur(state) = Top.close
       THEN /\ state' = state + 1
            /\ Return(List(Append(Top.elts, parseAssignableListItemTypes(ret))))
            /\ UNCHANGED perr
       ELSE /\ state' = state
            /\ Abort(PFail(state).err)
    /\ UNCHANGED <<tokens, streak, call, convVars, clashVars>>

\* lines 188-193: the decorators, then this.parseMaybeDefault() is called
ListItem ==
    /\ InFrame("parseBindingList", "loop")
    /\ Cur(state) # Top.close
    /\ ~AtHole
    /\ Cur(AfterComma) \notin {Top.close, "ellipsis"}
    /\ LET r == parseDecorators(AfterComma, <<>>)
       IN /\ state' = r.state
          /\ IF r.err # NoError
             THEN Abort(r.err)
             ELSE /\ CallFrom([Top EXCEPT !.pc = "afterLeft", !.first = FALSE,
                                          !.decorators = r.list, !.iterStart = state],
                              MaybeDefaultFrame)
                  /\ UNCHANGED <<ret, perr>>
    /\ UNCHANGED <<tokens, streak, call, convVars, clashVars>>

\* lines 193-198: the decorators are attached, parseMaybeDefault is called
\* again with the item, the result is pushed and the loop goes on
ListAfterLeft ==
    /\ InFrame("parseBindingList", "afterLeft")
    /\ LET left == IF Top.decorators # <<>>
                   THEN PNode([k \in DOMAIN ret \cup {"decorators"} |->
                                  IF k = "decorators" THEN Top.decorators ELSE ret[k]],
                              ret.start, ret.loc.start)
                   ELSE ret
           r == parseMaybeDefaultOf(state, Given(left.start), Given(left.loc.start),
                                    parseAssignableListItemTypes(left))
       IN /\ state' = r.state
          /\ IF r.err # NoError
             THEN Abort(r.err) /\ UNCHANGED streak
             ELSE LET idle == IF r.state = Top.iterStart THEN Top.idle + 1 ELSE 0
                  IN /\ stack' = <<[Top EXCEPT !.elts = Append(@, r.node), !.pc = "loop",
                                               !.decorators = <<>>, !.idle = idle]>>
                                 \o Tail(stack)
                     /\ streak' = Max(streak, idle)
                     /\ UNCHANGED <<ret, perr>>
    /\ UNCHANGED <<tokens, call, convVars, clashVars>>

\* lines 134-137: the rest marker is consumed, parseBindingAtom is called
RestEnter ==
    /\ InFrame("parseRest", "enter")
    /\ state' = state + 1
    /\ CallFrom([Top EXCEPT !.pc = "afterAtom", !.start = StartAt(state)], AtomFrame)
    /\ UNCHANGED <<tokens, ret, perr, streak, call, convVars, clashVars>>

\* lines 137-138
RestFinish ==
    /\ InFrame("parseRest", "afterAtom")
    /\ Return(PNode(RestElement(ret), Top.start, [line |-> 1, column |-> Top.start]))
    /\ UNCHANGED <<tokens, state, perr, streak, call, convVars, clashVars>>

\* lines 211-213 with no argument: the start is the current token's, and
\* parseBindingAtom is called for the left side
MaybeDefaultEnter ==
    /\ InFrame("parseMaybeDefault", "enter")
    /\ CallFrom([Top EXCEPT !.pc = "afterAtom", !.startPos = StartPosOr(<<>>, state),
                            !.startLoc = StartLocOr(<<>>, state)], AtomFrame)
    /\ UNCHANGED <<tokens, state, ret, perr, streak, call, convVars, clashVars>>

\* lines 214-219, after parseBindingAtom returned the left side
MaybeDefaultFinish ==
    /\ InFrame("parseMaybeDefault", "afterAtom")
    /\ LET r == parseMaybeDefaultTail(state, Top.startPos, Top.startLoc, ret)
       IN /\ state' = r.state
          /\ IF r.err # NoError THEN Abort(r.err)
             ELSE Return(r.node) /\ UNCHANGED perr
    /\ UNCHANGED <<tokens, streak, call, convVars, clashVars>>

\* parseMaybeDefault(startPos, startLoc, left) called by another parser
\* component with a left side it parsed
MaybeDefaultSeeded ==
    /\ InFrame("parseMaybeDefault", "seeded")
    /\ LET r == parseMaybeDefaultOf(state, Given(call.startPos), Given(call.startLoc),
                                    call.left)
       IN /\ state' = r.state
          /\ IF r.err # NoError THEN Abort(r.err)
             ELSE Return(r.node) /\ UNCHANGED perr
    /\ UNCHANGED <<tokens, streak, call, convVars, clashVars>>

\* lines 152-154: an identifier
AtomIdentifier ==
    /\ InFrame("parseBindingAtom", "enter")
    /\ Cur(state) = "name"
    /\ state' = parseIdentifier(state).state
    /\ Return(parseIdentifier(state).node)
    /\ UNCHANGED <<tokens, perr, streak, call, convVars, clashVars>>

\* lines 156-159: the bracket is consumed, parseBindingList is called
AtomArray ==
    /\ InFrame("parseBindingAtom", "enter")
    /\ Cur(state) = "bracketL"
    /\ state' = state + 1
    /\ CallFrom([Top EXCEPT !.pc = "afterList", !.start = StartAt(state)],
                ListFrame("bracketR", TRUE))
    /\ UNCHANGED <<tokens, ret, perr, streak, call, convVars, clashVars>>

\* lines 159-160
AtomArrayFinish ==
    /\ InFrame("parseBindingAtom", "afterList")
    /\ Return(PNode(ArrayPattern(ret.elements), Top.start, [line |-> 1, column |-> Top.start]))
    /\ UNCHANGED <<tokens, state, perr, streak, call, convVars, clashVars>>

\* lines 162-163: this.parseObj(true)
AtomObject ==
    /\ InFrame("parseBindingAtom", "enter")
    /\ Cur(state) = "braceL"
    /\ LET r == parseObj(state)
       IN /\ state' = r.state
          /\ IF r.err # NoError THEN Abort(r.err)
             ELSE Return(r.node) /\ UNCHANGED perr
    /\ UNCHANGED <<tokens, streak, call, convVars, clashVars>>

\* lines 165-166
AtomUnexpected ==
    /\ InFrame("parseBindingAtom", "enter")
    /\ Cur(state) \notin {"name", "bracketL", "braceL"}
    /\ Abort(PFail(state).err)
    /\ UNCHANGED <<tokens, state, streak, call, convVars, clashVars>>

\* the calls under check: parseBindingList(close, allowEmpty) after the
\* opening token, and parseMaybeDefault(startPos, startLoc, left) after a left
\* side that starts at left.start, startPos being at or before it
ListCalls ==
    { [fn |-> "parseBindingList", close |-> c, allowEmpty |-> e, base |-> 0] :
         c \in {"bracketR", "parenR"}, e \in BOOLEAN }

SeededCalls ==
    { [fn |-> "parseMaybeDefault", startPos |-> sp,
       startLoc |-> [line |-> 1, column |-> sp],
       left |-> PNode(Identifier("a"), ls, [line |-> 1, column |-> ls]),
       base |-> ls] : ls \in 0..MaxStart, sp \in 0..MaxStart }

ParseInit ==
    /\ InitConvIdle
    /\ InitClashIdle
    /\ tokens \in Streams
    /\ state = 1
    /\ call \in ListCalls \cup { c \in SeededCalls : c.startPos <= c.left.start }
    /\ stack = IF call.fn = "parseBindingList"
               THEN <<ListFrame(call.close, call.allowEmpty)>>
               ELSE <<[MaybeDefaultFrame EXCEPT !.pc = "seeded"]>>
    /\ ret = Null
    /\ perr = NoError
    /\ streak = 0

\* the steps of parseBindingList and of the parsers it calls
ListNext ==
    \/ ListEnd \/ ListHole \/ ListBreak \/ ListRest \/ ListAfterRest
    \/ ListItem \/ ListAfterLeft
    \/ RestEnter \/ RestFinish
    \/ MaybeDefaultEnter \/ MaybeDefaultFinish
    \/ AtomIdentifier \/ AtomArray \/ AtomArrayFinish \/ AtomObject \/ AtomUnexpected

ParseNext == ListNext \/ MaybeDefaultSeeded

ParseSpec == ParseInit /\ [][ParseNext]_vars

\* the calls of parseBindingList alone
ListInit == ParseInit /\ call.fn = "parseBindingList"

\* the parser is one synchronous computation: it takes its next step as long
\* as it has one
ListLive == ListInit /\ [][ListNext]_vars /\ WF_vars(ListNext)

(***************************************************************************)
(* Properties of the conversion and of the validation.                     *)
(***************************************************************************)
\* the child of n a path step k leads to: the k-th property or element, or
\* (step 0) the value, the argument or the left side
ChildAt(n, k) ==
    CASE n.type \in {"ObjectExpression", "ObjectPattern"} -> n.properties[k]
      [] n.type \in {"ArrayExpression", "ArrayPattern"} -> n.elements[k]
      [] n.type = "ObjectProperty" -> n.value
      [] n.type \in {"SpreadElement", "RestElement"} -> n.argument
      [] n.type \in {"AssignmentExpression", "AssignmentPattern"} -> n.left

RECURSIVE NodeAt(_, _)
NodeAt(n, path) ==
    IF path = <<>> THEN n ELSE NodeAt(ChildAt(n, Head(path)), Tail(path))

\* the children of n in target positions (not the default value), in order
TargetChildren(n) ==
    CASE n.type \in {"ObjectExpression", "ObjectPattern"} -> n.properties
      [] n.type \in {"ArrayExpression", "ArrayPattern"} -> n.elements
      [] n.type = "ObjectProperty" -> <<n.value>>
      [] n.type \in {"SpreadElement", "RestElement"} -> <<n.argument>>
      [] n.type \in {"AssignmentExpression", "AssignmentPattern"} -> <<n.left>>
      [] OTHER -> <<>>

\* the paths of the nodes of the input that the conversion is called on (and
\* of a final RestElement, which toAssignableList steps over)
RECURSIVE VisitedPaths(_, _)
VisitedPaths(n, path) ==
    {path} \cup
    CASE n.type = "ObjectExpression" ->
           UNION { VisitedPaths(n.properties[i], path \o <<i>>) : i \in DOMAIN n.properties }
      [] n.type = "ArrayExpression" ->
           UNION { IF i = Len(n.elements) /\ n.elements[i].type = "RestElement"
                   THEN {path \o <<i>>}
                   ELSE VisitedPaths(n.elements[i], path \o <<i>>) : i \in DOMAIN n.elements }
      [] n.type = "ObjectProperty" -> VisitedPaths(n.value, path \o <<0>>)
      [] n.type = "SpreadElement" -> VisitedPaths(n.argument, path \o <<0>>)
      [] OTHER -> {}

\* the nodes reachable from n through target positions, n included
RECURSIVE TargetNodes(_)
TargetNodes(n) ==
    {n} \cup UNION { TargetNodes(TargetChildren(n)[i]) : i \in DOMAIN TargetChildren(n) }

\* every node reachable through target positions satisfies P
AllTargets(n, P(_)) == \A m \in TargetNodes(n) : P(m)

\* a rest or a spread sits at a position of a list of n that is not the last
RestNotLast(n) ==
    /\ n.type \in {"ObjectExpression", "ObjectPattern", "ArrayExpression", "ArrayPattern"}
    /\ \E i \in 1..(Len(TargetChildren(n)) - 1) :
          TargetChildren(n)[i].type \in {"RestElement", "SpreadElement"}

NoRestNotLast(n) == ~RestNotLast(n)

\* the node is of the expression family: what the expression parser builds
ExpressionNode(n) ==
    n.type \notin {"ObjectPattern", "ArrayPattern", "AssignmentPattern", "RestElement"}

\* a member expression sits in a target position
IsMember(n) == n.type = "MemberExpression"

NotMember(n) == ~IsMember(n)

\* the paths of the identifiers in target positions, in document order
RECURSIVE TargetIdPaths(_, _)
RECURSIVE TargetIdPathsIn(_, _, _)
TargetIdPathsIn(list, i, path) ==
    IF i > Len(list) THEN <<>>
    ELSE (IF list[i].type = "ObjectProperty"
          THEN TargetIdPaths(list[i].value, path \o <<i, 0>>)
          ELSE TargetIdPaths(list[i], path \o <<i>>))
         \o TargetIdPathsIn(list, i + 1, path)

TargetIdPaths(n, path) ==
    CASE n.type \in {"Identifier", "PrivateName"} -> <<path>>
      [] n.type = "ObjectPattern" -> TargetIdPathsIn(n.properties, 1, path)
      [] n.type = "ArrayPattern" -> TargetIdPathsIn(n.elements, 1, path)
      [] n.type \in {"AssignmentPattern", "RestElement"} ->
           TargetIdPaths(TargetChildren(n)[1], path \o <<0>>)
      [] OTHER -> <<>>

Converted == pc = "converted" /\ err = NoError

\* the types a node the conversion visited may have once it returned
ConvertedTypes ==
    PatternFamily \cup {"ObjectProperty", "Null"}
    \cup (IF isBinding THEN {} ELSE {"MemberExpression"})

\* C1 as stated: after toAssignable returns without raising, every node
\* reachable from the returned node (holes and default values apart) has a type
\* of the pattern family, or is a MemberExpression when isBinding is false.
C1_AllReachablePattern ==
    Converted =>
        AllTargets(node, LAMBDA n :
            \/ n.type \in PatternFamily \cup {"Null"}
            \/ n.type = "MemberExpression" /\ ~isBinding)

\* C1 (amended): after toAssignable returns without raising, every node the
\* conversion visited (the returned node, the properties of a converted object
\* literal and their values, the elements of a converted array literal, the
\* argument of a converted spread) has a type of the pattern family, or is an
\* ObjectProperty (whose type conversion leaves unchanged), or is a
\* MemberExpression when isBinding is false; a node that was a pattern on
\* entry is returned as it was, and the left side of a converted
\* AssignmentExpression is left as it was, whatever their children are.
C1_VisitedNodesArePatterns ==
    Converted =>
        \A p \in VisitedPaths(input, <<>>) :
            LET in == NodeAt(input, p)
                out == NodeAt(node, p)
            IN /\ out.type \in ConvertedTypes
               /\ in.type \in PatternFamily => out = in
               /\ in.type = "AssignmentExpression" =>
                     out = AssignmentPattern(in.left, in.right)

C1_Witness ==
    /\ Converted
    /\ input = ObjectExpression(<<ObjectProperty(ArrayExpression(
                    <<SpreadElement(Identifier("a"))>>))>>)
    /\ node = ObjectPattern(<<ObjectProperty(ArrayPattern(
                    <<RestElement(Identifier("a"))>>))>>)

\* C2 as stated, for the trees the expression parser builds: when toAssignable
\* returns without raising, no RestElement sits at a position that is not the
\* last of an element list or of a property list of the returned tree; an input
\* with a SpreadElement at such a position makes the conversion raise.
C2_RestOnlyLast ==
    (pc = "converted" /\ AllTargets(input, ExpressionNode)) =>
        /\ err = NoError => AllTargets(node, NoRestNotLast)
        /\ ~AllTargets(input, NoRestNotLast) => err # NoError

C5_MemberNeverBinding ==
    /\ (pc = "converted" /\ input.type = "MemberExpression") =>
          IF isBinding
          THEN err.kind = "invalid-lvalue-shape" /\ node = input
          ELSE err = NoError /\ node = input
    /\ (pc = "checked" /\ input.type = "MemberExpression") =>
          (err = NoError <=> ~isBinding)
    /\ (pc = "convertedChecked" /\ isBinding /\ err = NoError) =>
          AllTargets(input, NotMember)

C5_Witness ==
    /\ pc = "convertedChecked"
    /\ isBinding
    /\ input = ArrayExpression(<<AssignmentExpression("=", MemberExpression, NumericLiteral)>>)
    /\ err.message = "Binding member expression"

\* C6: toAssignable never raises on an Identifier, a PrivateName, an
\* ObjectPattern, an ArrayPattern, an AssignmentPattern or a hole, whatever the
\* children and isBinding are, and returns the node with its type and every
\* child unchanged.
C6_PatternsUnchanged ==
    (pc = "converted" /\ input.type \in {"Identifier", "PrivateName", "ObjectPattern",
                                          "ArrayPattern", "AssignmentPattern", "Null"})
        => err = NoError /\ node = input

C6_Witness ==
    /\ pc = "converted"
    /\ err = NoError
    /\ input = ArrayPattern(<<ArrayExpression(<<>>), SpreadElement(NumericLiteral)>>)
    /\ node = input

\* C9 as stated: on a tree toAssignable returned without raising, checkLVal
\* with the same isBinding and no clash map raises no invalid-left-hand-side
\* and no member-expression error.
C9_CheckNeverRejects ==
    pc = "convertedChecked" => err.kind # "invalid-lvalue-shape"

\* C9 (amended): on a tree toAssignable returned without raising, checkLVal
\* with the same isBinding and no clash map raises no error at a node the
\* conversion visited, except at a bare ObjectProperty handed in as the root;
\* it can raise only under a node the conversion did not descend into (the left
\* side of an assignment, the children of a node that was a pattern on entry,
\* the argument of a final RestElement).  When it raises nothing, it has
\* visited exactly the identifiers in target positions of the returned tree,
\* each at the place conversion left it, in order.
C9_CheckRejectsOnlyUnvisited ==
    pc = "convertedChecked" =>
        /\ err # NoError =>
              \/ errPos \notin VisitedPaths(input, <<>>)
              \/ errPos = <<>> /\ input.type = "ObjectProperty"
        /\ err = NoError => visited = TargetIdPaths(node, <<>>)

C9_Witness ==
    /\ pc = "convertedChecked"
    /\ err = NoError
    /\ input = ObjectExpression(<<ObjectProperty(Identifier("a")),
                                  SpreadElement(Identifier("a"))>>)
    /\ visited = << <<1, 0>>, <<2, 0>> >>

\* the index of the first name of names that is in prior or occurs earlier in
\* names; 0 if there is none
FirstDuplicate(names, prior) ==
    LET dups == { j \in DOMAIN names :
                    names[j] \in prior \cup { names[i] : i \in 1..(j - 1) } }
    IN IF dups = {} THEN 0 ELSE CHOOSE j \in dups : \A k \in dups : j <= k

\* C4: under one clash map, an identifier raises the duplicate-binding error if
\* and only if an identifier of the same name was visited before, in the same
\* tree or in an earlier call, whatever the names are; without a clash map no
\* duplicate is reported.
C4_ClashIffSameName ==
    pc = "clashChecked" =>
        LET paths == TargetIdPaths(input, <<>>)
            names == [i \in DOMAIN paths |-> NodeAt(input, paths[i]).name]
            j == FirstDuplicate(names, seen)
        IN IF checkClashes = <<>> \/ j = 0
           THEN err = NoError
           ELSE err.kind = "duplicate-binding" /\ errPos = paths[j]

\* the list that a parseBindingList call returns has a rest element at its
\* last index only, and holes only if allowEmpty is set
WellFormedList(list, allowEmpty) ==
    \A j \in 1..Len(list) :
        /\ list[j].type = "RestElement" => j = Len(list)
        /\ list[j] = Null => allowEmpty

\* C7: in parseBindingList, once a rest pattern has been parsed the next token
\* must be the close token, else the parse raises, and the list returns with
\* that rest as its last element; no list in progress holds a rest element, so
\* nothing is parsed after one; a hole is appended only if allowEmpty is set;
\* a comma after an item and directly before the close token adds no hole.
C7_RestEndsList ==
    /\ [](\A k \in 1..Len(stack) :
            stack[k].fn = "parseBindingList" =>
                \A j \in 1..Len(stack[k].elts) :
                    /\ stack[k].elts[j].type # "RestElement"
                    /\ stack[k].elts[j] = Null => stack[k].allowEmpty)
    /\ [][InFrame("parseBindingList", "afterRest") =>
            IF Cur(state) = Top.close
            THEN /\ stack' = Tail(stack)
                 /\ state' = state + 1
                 /\ perr' = NoError
                 /\ ret.type = "RestElement"
                 /\ ret' = List(Append(Top.elts, ret))
            ELSE /\ stack' = <<>>
                 /\ perr'.kind = "unexpected-token"]_vars
    /\ [][(stack # <<>> /\ Top.fn = "parseBindingList" /\ stack' = Tail(stack)
             /\ perr' = NoError) =>
            /\ ret'.type = "List"
            /\ WellFormedList(ret'.elements, Top.allowEmpty)]_vars
    /\ [][(InFrame("parseBindingList", "loop") /\ ~Top.first
             /\ Cur(state) = "comma" /\ Cur(state + 1) = Top.close) =>
            /\ stack' = Tail(stack)
            /\ state' = state + 2
            /\ ret' = List(Top.elts)]_vars

\* parseBindingList(tt.bracketR, true) on , ...a ] has returned a hole and a
\* rest element
C7_Witness ==
    /\ call.fn = "parseBindingList"
    /\ stack = <<>>
    /\ perr = NoError
    /\ tokens = <<"comma", "ellipsis", "name", "bracketR">>
    /\ Len(ret.elements) = 2
    /\ ret.elements[1] = Null
    /\ ret.elements[2].type = "RestElement"

\* C8: parseMaybeDefault(startPos, startLoc, left) returns left and consumes
\* nothing if the next token is not the default-value operator; if it is, the
\* AssignmentPattern it returns has left as its left side and starts at the
\* startPos and startLoc it was given, whatever the offset.
C8_StartsAtSuppliedStart ==
    (call.fn = "parseMaybeDefault" /\ stack = <<>> /\ perr = NoError) =>
        IF Cur(1) = "eq"
        THEN /\ ret.type = "AssignmentPattern"
             /\ ret.left = call.left
             /\ ret.start = call.startPos
             /\ ret.loc.start = call.startLoc
        ELSE ret = call.left /\ state = 1

\* C10: every call ends, by a return or by a raise, and the loop of
\* parseBindingList never runs two iterations in a row that consume no token.
C10_Terminates ==
    /\ <>(stack = <<>>)
    /\ [](streak <= 1)

\* parseBindingList(close, true) has returned from a stream that starts with a
\* comma: its first iteration appended a hole and consumed nothing
C10_Witness ==
    /\ call.fn = "parseBindingList"
    /\ stack = <<>>
    /\ perr = NoError
    /\ streak = 1
    /\ Len(ret.elements) >= 2

====
